---- MODULE Spec2Model ----
(***************************************************************************)
(* Behavioural-biometrics risk engine: the /api/collect_behavior handler   *)
(* of backend/app.py with the profile updater (user_profiler.py), the      *)
(* rule-based scorer (anomaly_detector.py) and the normalizer              *)
(* (feature_extractor.py).                                                 *)
(*                                                                         *)
(* Numbers.  The program computes in binary floating point.  The model     *)
(* computes in decimal fixed point:                                        *)
(*   - a normalized feature / profile value v is the integer v * Scale;    *)
(*     Scale has one decimal digit per session, so that every 0.9/0.1      *)
(*     update of the explored runs is exact;                               *)
(*   - a deviation or a risk score s is the integer s * ScoreScale,        *)
(*     quotients being truncated at the fifth decimal.                     *)
(* Raw (unnormalized) features are integers in the unit of the metric,     *)
(* the two angle metrics in 1/100 rad.                                     *)
(***************************************************************************)
EXTENDS Integers, Sequences, FiniteSets, TLC

\* ------------------------------------------------------------------ bounds
\* Sessions (requests) ever received when requests are served one at a time.
MaxSessions == 5
\* Sessions ever received when requests overlap.
MaxRaceSessions == 3
\* Requests being processed at the same time (server workers).
MaxConcurrent == 2
\* Advances of the wall clock, each of one alert window, when requests are
\* served one at a time and when they overlap.
MaxTicks == 2
MaxRaceTicks == 1
\* Storage operations that fail (raise) in one run.
MaxFaults == 1
\* Events of an enumerated batch.
MaxEvents == 3
\* Storage operations that fail in one run when those of one session may all
\* fail.
MaxSessionFaults == 4
\* Largest minimum and maximum of an overriding calibration table.
MaxCalibration == 2

Procs == 1..MaxSessions
Users == {"u1"}

Scale == 10 ^ MaxSessions
ScoreScale == 10 ^ 5

\* ------------------------------------------------------------ fixed point
Min(a, b) == IF a <= b THEN a ELSE b
Max(a, b) == IF a >= b THEN a ELSE b
Abs(a) == IF a < 0 THEN -a ELSE a

RECURSIVE DivDigits(_, _, _)
\* r / c for 0 <= r < c, in units of 1/one (one a power of 10), truncated;
\* computed digit by digit so that no product leaves the integer range.
DivDigits(r, c, one) ==
    IF one = 1 THEN 0
    ELSE ((r * 10) \div c) * (one \div 10) + DivDigits((r * 10) % c, c, one \div 10)

\* a / c for c > 0, in units of 1/one, truncated toward minus infinity.
FixDiv(a, c, one) == (a \div c) * one + DivDigits(a % c, c, one)

RECURSIVE SumOver(_, _)
\* The sum of f[i] over a sequence of integers.
SumOver(s, i) == IF i > Len(s) THEN 0 ELSE s[i] + SumOver(s, i + 1)

\* ---------------------------------------------------------------- metrics
\* The 12 core metrics, in the order all three modules list them.
FEATURE_ORDER ==
    << "avg_dwell_time_ms", "std_dwell_time_ms", "avg_flight_time_ms",
       "std_flight_time_ms", "typing_speed_cps", "mouse_total_movements",
       "mouse_total_clicks", "mouse_total_path_length",
       "mouse_avg_speed_px_per_s", "mouse_avg_angle_change_rad",
       "mouse_std_angle_change_rad", "session_duration_ms" >>

PROFILE_FEATURES == FEATURE_ORDER

Metrics == { FEATURE_ORDER[i] : i \in 1..Len(FEATURE_ORDER) }

\* dict.get(key, default) on a mapping from metric names.
Get(d, key, default) == IF key \in DOMAIN d THEN d[key] ELSE default

\* The empty dict {}.
EmptyFeatures == [m \in {} |-> 0]

\* ------------------------------------------------------------- normalizer
\* The default calibration table, in raw units (angles in 1/100 rad).
min_max_values ==
    [m \in Metrics |->
        CASE m = "avg_dwell_time_ms" -> [min |-> 50, max |-> 500]
          [] m = "std_dwell_time_ms" -> [min |-> 0, max |-> 200]
          [] m = "avg_flight_time_ms" -> [min |-> 50, max |-> 1000]
          [] m = "std_flight_time_ms" -> [min |-> 0, max |-> 300]
          [] m = "typing_speed_cps" -> [min |-> 0, max |-> 10]
          [] m = "mouse_total_movements" -> [min |-> 0, max |-> 1000]
          [] m = "mouse_total_clicks" -> [min |-> 0, max |-> 50]
          [] m = "mouse_total_path_length" -> [min |-> 0, max |-> 50000]
          [] m = "mouse_avg_speed_px_per_s" -> [min |-> 0, max |-> 1000]
          [] m = "mouse_avg_angle_change_rad" -> [min |-> 0, max |-> 314]
          [] m = "mouse_std_angle_change_rad" -> [min |-> 0, max |-> 100]
          [] OTHER -> [min |-> 0, max |-> 600000]]

\* The scaling without the clamp to [0, 1].
NormalizeValueUnclamped(value, min_val, max_val) ==
    IF max_val - min_val > 0
    THEN FixDiv(value - min_val, max_val - min_val, Scale)
    ELSE Scale \div 2

\* The scaling with 0 instead of the midpoint when the range is empty.
NormalizeValueNoMidpoint(value, min_val, max_val) ==
    IF max_val - min_val > 0
    THEN Max(0, Min(Scale, FixDiv(value - min_val, max_val - min_val, Scale)))
    ELSE 0

\* One feature of normalize_features: min-max scaling clamped to [0, 1],
\* 0.5 when the range is empty.
NormalizeValue(value, min_val, max_val) ==
    IF max_val - min_val > 0
    THEN Max(0, Min(Scale, FixDiv(value - min_val, max_val - min_val, Scale)))
    ELSE Scale \div 2

\* normalize_features(features, min_max_values): a feature of the table is
\* scaled; any other passes through unchanged (its value, on the scale of the
\* output).
normalize_features(features, table) ==
    [key \in DOMAIN features |->
        IF key \in DOMAIN table
        THEN NormalizeValue(features[key], table[key].min, table[key].max)
        ELSE features[key] * Scale]

\* -------------------------------------------------------------- extractor
\* A raw event of a decoded batch.  A key event carries keyCode, a pointer
\* event x and y; the field an event does not carry is NaN in the DataFrame
\* and is never read for an event of that type (0 here).
Event(type, keyCode, timestamp, x, y) ==
    [type |-> type, keyCode |-> keyCode, timestamp |-> timestamp, x |-> x, y |-> y]

RECURSIVE SqrtBetween(_, _, _)
\* The integer square root of n, searched in lo..hi.
SqrtBetween(n, lo, hi) ==
    IF lo >= hi THEN lo
    ELSE LET mid == (lo + hi + 1) \div 2
         IN  IF mid * mid <= n THEN SqrtBetween(n, mid, hi)
             ELSE SqrtBetween(n, lo, mid - 1)

\* np.sqrt, truncated to the unit.
Sqrt(n) == SqrtBetween(n, 0, n)

\* np.mean of a non-empty list, truncated to the unit.
Mean(list) == SumOver(list, 1) \div Len(list)

\* np.std of a non-empty list (population standard deviation), truncated:
\* sqrt(n * sum(x^2) - sum(x)^2) / n.
Std(list) ==
    LET n == Len(list)
        squares == [i \in 1..n |-> list[i] * list[i]]
    IN  Sqrt(n * SumOver(squares, 1) - SumOver(list, 1) * SumOver(list, 1)) \div n

\* The state of the keystroke loop: key_down_times, the two lists and
\* prev_key_up_time (<< >> for None, << t >> once a key_up was matched).
KeyState(key_down_times, flight_times, dwell_times, prev_key_up_time) ==
    [key_down_times |-> key_down_times, flight_times |-> flight_times,
     dwell_times |-> dwell_times, prev_key_up_time |-> prev_key_up_time]

\* One iteration of "for _, row in df.iterrows()".
KeyRow(row, st) ==
    IF row.type = "keydown"
    THEN KeyState(
             [k \in DOMAIN st.key_down_times \cup {row.keyCode} |->
                 IF k = row.keyCode THEN row.timestamp ELSE st.key_down_times[k]],
             IF st.prev_key_up_time # << >>
             THEN Append(st.flight_times, row.timestamp - st.prev_key_up_time[1])
             ELSE st.flight_times,
             st.dwell_times,
             st.prev_key_up_time)
    ELSE IF row.type = "keyup" /\ row.keyCode \in DOMAIN st.key_down_times
    THEN KeyState(
             [k \in DOMAIN st.key_down_times \ {row.keyCode} |-> st.key_down_times[k]],
             st.flight_times,
             Append(st.dwell_times, row.timestamp - st.key_down_times[row.keyCode]),
             << row.timestamp >>)
    ELSE st

RECURSIVE KeyLoop(_, _, _)
\* The keystroke loop over the rows of the DataFrame, which are in the order
\* of the decoded list (the frame is never sorted).
KeyLoop(events, i, st) ==
    IF i > Len(events) THEN st
    ELSE KeyLoop(events, i + 1, KeyRow(events[i], st))

dwell_times(events) ==
    KeyLoop(events, 1, KeyState([k \in {} |-> 0], << >>, << >>, << >>)).dwell_times

flight_times(events) ==
    KeyLoop(events, 1, KeyState([k \in {} |-> 0], << >>, << >>, << >>)).flight_times

\* df['timestamp'].max() - df['timestamp'].min(), in ms.
TimeSpan(events) ==
    LET ts == { events[i].timestamp : i \in 1..Len(events) }
    IN  (CHOOSE t \in ts : \A u \in ts : u <= t)
        - (CHOOSE t \in ts : \A u \in ts : t <= u)

\* The rows of the given types, in order.
OfTypes(events, types) == SelectSeq(events, LAMBDA e : e.type \in types)

RECURSIVE SortByTimestamp(_)
\* sort_values('timestamp').
SortByTimestamp(events) ==
    IF Len(events) <= 1 THEN events
    ELSE LET i == CHOOSE j \in 1..Len(events) :
                      /\ \A k \in 1..Len(events) :
                             events[j].timestamp <= events[k].timestamp
                      /\ \A k \in 1..(j - 1) :
                             events[k].timestamp > events[j].timestamp
         IN  << events[i] >> \o
             SortByTimestamp([k \in 1..(Len(events) - 1) |->
                                 IF k < i THEN events[k] ELSE events[k + 1]])

\* np.arctan2(dy, dx) in 1/100 rad, for the segments between the points the
\* explored batches use: along an axis, or along the hypotenuse of the 3-4-5
\* triangle (arctan(4/3) = 0.93 rad); arctan2(0, 0) = 0.
arctan2(dy, dx) ==
    IF dy = 0 THEN (IF dx < 0 THEN 314 ELSE 0)
    ELSE IF dx = 0 THEN (IF dy > 0 THEN 157 ELSE -157)
    ELSE IF dx > 0 THEN (IF dy > 0 THEN 93 ELSE -93)
    ELSE (IF dy > 0 THEN 221 ELSE -221)

\* np.diff(coords, axis=0): the segments between consecutive points.
Diffs(coords) ==
    [i \in 1..(Len(coords) - 1) |->
        [dx |-> coords[i + 1].x - coords[i].x, dy |-> coords[i + 1].y - coords[i].y]]

\* The lengths of the segments, sqrt(dx^2 + dy^2).
path_lengths(coords) ==
    [i \in 1..(Len(coords) - 1) |->
        Sqrt(Diffs(coords)[i].dx * Diffs(coords)[i].dx
             + Diffs(coords)[i].dy * Diffs(coords)[i].dy)]

\* The changes of direction between consecutive segments, each the smaller of
\* the change and 2 pi minus the change, in 1/100 rad.
angle_changes(coords) ==
    LET angles == [i \in 1..(Len(coords) - 1) |->
                      arctan2(Diffs(coords)[i].dy, Diffs(coords)[i].dx)]
    IN  [i \in 1..(Len(coords) - 2) |->
            Min(Abs(angles[i + 1] - angles[i]), 628 - Abs(angles[i + 1] - angles[i]))]

\* extract_web_features on a non-empty list of well-formed events: the raw
\* feature vector, each value truncated to the unit of the metric (ms, cps,
\* px, px/s; angles in 1/100 rad).  The result has the 12 names of
\* all_possible_features and no other.
extract_web_features(events) ==
    LET dwell == dwell_times(events)
        flight == flight_times(events)
        total_time_typing == TimeSpan(events)
        key_events == OfTypes(events, {"keydown", "keyup"})
        mouse_events == SortByTimestamp(OfTypes(events, {"mousemove", "click"}))
        coords == mouse_events
        total_path_length == SumOver(path_lengths(coords), 1)
        total_mouse_time == TimeSpan(mouse_events)
    IN  [m \in Metrics |->
           CASE m = "avg_dwell_time_ms" -> IF dwell # << >> THEN Mean(dwell) ELSE 0
             [] m = "std_dwell_time_ms" -> IF dwell # << >> THEN Std(dwell) ELSE 0
             [] m = "avg_flight_time_ms" -> IF flight # << >> THEN Mean(flight) ELSE 0
             [] m = "std_flight_time_ms" -> IF flight # << >> THEN Std(flight) ELSE 0
             [] m = "typing_speed_cps" ->
                    IF total_time_typing > 0
                    THEN (Len(key_events) * 1000) \div (2 * total_time_typing)
                    ELSE 0
             [] m = "mouse_total_movements" -> Len(OfTypes(mouse_events, {"mousemove"}))
             [] m = "mouse_total_clicks" -> Len(OfTypes(mouse_events, {"click"}))
             [] m = "mouse_total_path_length" ->
                    IF Len(coords) > 1 THEN total_path_length ELSE 0
             [] m = "mouse_avg_speed_px_per_s" ->
                    IF Len(coords) > 1 /\ total_mouse_time > 0
                    THEN (total_path_length * 1000) \div total_mouse_time
                    ELSE 0
             [] m = "mouse_avg_angle_change_rad" ->
                    IF Len(coords) > 2 THEN Mean(angle_changes(coords)) ELSE 0
             [] m = "mouse_std_angle_change_rad" ->
                    IF Len(coords) > 2 THEN Std(angle_changes(coords)) ELSE 0
             [] OTHER -> IF Len(events) > 1 THEN TimeSpan(events) ELSE 0]

\* ------------------------------------------------------- request payloads
\* A request's sessionData, described by what base64 + JSON decoding makes of
\* it:
\*   "undecodable"  decoding raises (bad base64, bad UTF-8 or bad JSON);
\*   "empty"        it decodes to a falsy value ([], {}, 0, "", null, false);
\*   "object", "number", "string"   it decodes to a truthy value that is no
\*                  list: an object with scalar members, a number, a string;
\*   "events"       it decodes to a list of events; missing names the field
\*                  that the events which should carry it lack ("" for none:
\*                  "type" and "timestamp" are missing from every event,
\*                  "keyCode" from the key events, "x" from the pointer events);
\*   "busy", "mixed"  a list of well-formed events too long to enumerate,
\*                  given by the feature vector the extractor makes of it.
Payload(kind, events, missing) ==
    [kind |-> kind, events |-> events, missing |-> missing]

\* A payload that fails decoding.
Undecodable == Payload("undecodable", << >>, "")

\* A batch with one key event and nothing else: every raw feature is 0.
IdleSession == Payload("events", << Event("keydown", 65, 100, 0, 0) >>, "")

BusySession == Payload("busy", << >>, "")

MixedSession == Payload("mixed", << >>, "")

Payloads == {Undecodable, IdleSession, BusySession, MixedSession}

\* The enumerated batches: up to MaxEvents events with distinct timestamps, in
\* any order of arrival; key events of two keys, pointer events on the corners
\* of a 3-4-5 triangle.
KeyCodes == {65, 66}

Times == { 100 * i : i \in 1..MaxEvents }

Points == { [x |-> 0, y |-> 0], [x |-> 3, y |-> 0], [x |-> 3, y |-> 4] }

EventAlphabet ==
    { Event(type, k, t, 0, 0) : type \in {"keydown", "keyup"}, k \in KeyCodes, t \in Times }
    \cup { Event(type, 0, t, pt.x, pt.y) :
               type \in {"mousemove", "click"}, pt \in Points, t \in Times }

Batches ==
    UNION { { b \in [1..n -> EventAlphabet] :
                  \A i, j \in 1..n : i # j => b[i].timestamp # b[j].timestamp } :
            n \in 1..MaxEvents }

\* The payloads of the enumerated requests: the batches, the batches of at
\* most two events with a field missing, and the payloads that are no list of
\* events.
BatchPayloads ==
    { Payload("events", b, "") : b \in Batches }
    \cup { Payload("events", b, missing) :
               b \in { c \in Batches : Len(c) <= 2 },
               missing \in {"type", "timestamp", "keyCode", "x"} }
    \cup { Payload(kind, << >>, "") :
               kind \in {"undecodable", "empty", "object", "number", "string"} }

\* The decoder handing back its input, a string, when decoding raises.
DecodeReturnsInput(payload) ==
    IF payload.kind = "undecodable" THEN Payload("string", << >>, "") ELSE payload

\* decrypt_and_decode_data: the decoded value, [] when decoding raises.
decrypt_and_decode_data(payload) ==
    IF payload.kind = "undecodable" THEN Payload("empty", << >>, "") ELSE payload

\* "not raw_events" / "not events": the decoded value is falsy.
Falsy(raw_events) ==
    \/ raw_events.kind = "empty"
    \/ raw_events.kind = "events" /\ raw_events.events = << >>

\* Whether extract_web_features raises on a truthy decoded value:
\* pd.DataFrame(events) raises ValueError on a dict of scalars, a number or a
\* string; df['timestamp'] raises KeyError when no event has a timestamp;
\* row['type'] when none has a type; row['keyCode'] on the first keydown or
\* keyup row when none has a keyCode; mouse_events[['x', 'y']] when there are
\* pointer events and none has an x.
ExtractRaises(raw_events) ==
    \/ raw_events.kind \in {"object", "number", "string"}
    \/ /\ raw_events.kind = "events"
       /\ \/ raw_events.missing \in {"timestamp", "type"}
          \/ /\ raw_events.missing = "keyCode"
             /\ OfTypes(raw_events.events, {"keydown", "keyup"}) # << >>
          \/ /\ raw_events.missing = "x"
             /\ OfTypes(raw_events.events, {"mousemove", "click"}) # << >>

\* A long, busy session: every raw feature at or above its calibration maximum.
RawBusy ==
    [m \in Metrics |->
        IF m = "avg_dwell_time_ms" THEN 600 ELSE min_max_values[m].max]

\* Fast typing over a long session, no completed key stroke, 25 clicks on one
\* spot and no pointer movement.
RawMixed ==
    [m \in Metrics |->
        IF m \in {"typing_speed_cps", "session_duration_ms"}
        THEN min_max_values[m].max
        ELSE IF m = "mouse_total_clicks" THEN 25 ELSE 0]

\* The extractor's result on a decoded list of events on which it does not
\* raise.
ExtractedFeatures(raw_events) ==
    CASE raw_events.kind = "busy" -> RawBusy
      [] raw_events.kind = "mixed" -> RawMixed
      [] OTHER -> extract_web_features(raw_events.events)

\* Whether process_raw_data raises: it catches nothing itself.
ProcessRaises(payload) ==
    /\ ~Falsy(decrypt_and_decode_data(payload))
    /\ ExtractRaises(decrypt_and_decode_data(payload))

\* process_raw_data when it returns: {} when nothing decodes, else the
\* normalized extraction.
process_raw_data(payload) ==
    IF Falsy(decrypt_and_decode_data(payload)) THEN EmptyFeatures
    ELSE normalize_features(ExtractedFeatures(decrypt_and_decode_data(payload)),
                            min_max_values)

\* ---------------------------------------------------------- profile store
\* A document of user_profiles_collection.  The stored document is flat; here
\* the 12 metric fields are grouped under vals.
ProfileDoc(uid, updated, vals) ==
    [user_id |-> uid, last_updated |-> updated, vals |-> vals]

\* None, as returned by get_user_profile.
NoProfile == ProfileDoc("", 0, [m \in Metrics |-> 0])

RECURSIVE FirstMatch(_, _, _)
\* Index of the first document of user uid in the collection, 0 if none.
FirstMatch(coll, uid, i) ==
    IF i > Len(coll) THEN 0
    ELSE IF coll[i].user_id = uid THEN i
    ELSE FirstMatch(coll, uid, i + 1)

\* find_one({"user_id": user_id}): the first matching document, or None.
find_one(coll, uid) ==
    IF FirstMatch(coll, uid, 1) = 0 THEN NoProfile
    ELSE coll[FirstMatch(coll, uid, 1)]

\* {"$setOnInsert": update_data} on a matching document: nothing is written.
ApplySetOnInsert(doc, data) == doc

\* {"$set": update_data} on a matching document: update_data names every
\* field of the document but _id, so the document becomes update_data.
ApplySet(doc, data) == data

\* The update with the two weights exchanged: 0.1 * old + 0.9 * new.
UpdateDataSwapped(uid, now, current_profile, new_features) ==
    ProfileDoc(uid, now,
        [m \in Metrics |->
            IF current_profile # NoProfile
            THEN (current_profile.vals[m] * 1 + Get(new_features, m, 0) * 9) \div 10
            ELSE Get(new_features, m, 0)])

\* The update_data of update_user_profile: 0.9 * old + 0.1 * new on an
\* existing profile, the new features verbatim otherwise.
UpdateData(uid, now, current_profile, new_features) ==
    ProfileDoc(uid, now,
        [m \in Metrics |->
            IF current_profile # NoProfile
            THEN (current_profile.vals[m] * 9 + Get(new_features, m, 0) * 1) \div 10
            ELSE Get(new_features, m, 0)])

\* ------------------------------------------------------------ risk scorer
\* The sensitivity table, in 1/100 (mouse_std_angle_change_rad has no entry).
sensitivity ==
    [m \in Metrics \ {"mouse_std_angle_change_rad"} |->
        CASE m = "avg_dwell_time_ms" -> 20
          [] m = "std_dwell_time_ms" -> 10
          [] m = "avg_flight_time_ms" -> 20
          [] m = "std_flight_time_ms" -> 10
          [] m = "typing_speed_cps" -> 30
          [] m = "mouse_avg_speed_px_per_s" -> 20
          [] m = "mouse_total_clicks" -> 10
          [] m = "mouse_total_path_length" -> 10
          [] m = "mouse_avg_angle_change_rad" -> 10
          [] m = "mouse_total_movements" -> 10
          [] OTHER -> 5]

\* sum(sensitivity.values()), in 1/100.
total_sensitivity ==
    SumOver([i \in 1..Len(FEATURE_ORDER) |-> Get(sensitivity, FEATURE_ORDER[i], 0)], 1)

\* min(1.0, deviation) of one metric, in 1/ScoreScale.
CappedDeviation(current_val, profile_val) ==
    IF profile_val = 0 /\ current_val = 0 THEN 0
    ELSE IF profile_val = 0 THEN ScoreScale
    ELSE IF Abs(current_val - profile_val) >= Abs(profile_val) THEN ScoreScale
    ELSE DivDigits(Abs(current_val - profile_val), profile_val, ScoreScale)

\* any(user_profile.values()): some field of the document is truthy.
AnyValue(user_profile) ==
    \/ user_profile.user_id # ""
    \/ user_profile.last_updated # 0
    \/ \E m \in Metrics : user_profile.vals[m] # 0

\* The score without the final min(1.0, ...).
RuleBasedScoreUncapped(current_features, user_profile) ==
    LET deviation_sum ==
            SumOver([i \in 1..Len(FEATURE_ORDER) |->
                        CappedDeviation(Get(current_features, FEATURE_ORDER[i], 0),
                                        user_profile.vals[FEATURE_ORDER[i]])
                        * Get(sensitivity, FEATURE_ORDER[i], 10)], 1)
        risk_score == deviation_sum \div total_sensitivity
    IN  IF ~AnyValue(user_profile)
        THEN Max(risk_score, (2 * ScoreScale) \div 10)
        ELSE risk_score

calculate_rule_based_risk_score(current_features, user_profile) ==
    LET deviation_sum ==
            SumOver([i \in 1..Len(FEATURE_ORDER) |->
                        CappedDeviation(Get(current_features, FEATURE_ORDER[i], 0),
                                        user_profile.vals[FEATURE_ORDER[i]])
                        * Get(sensitivity, FEATURE_ORDER[i], 10)], 1)
        risk_score == Min(ScoreScale, deviation_sum \div total_sensitivity)
    IN  IF ~AnyValue(user_profile)
        THEN Max(risk_score, (2 * ScoreScale) \div 10)
        ELSE risk_score

\* The scorer comparing a session without profile to an empty profile.
ScoreAgainstEmptyProfile(current_features, user_profile) ==
    IF DOMAIN current_features = {} THEN (5 * ScoreScale) \div 10
    ELSE calculate_rule_based_risk_score(current_features, user_profile)

get_risk_score(current_features, user_profile) ==
    IF DOMAIN current_features = {} THEN (5 * ScoreScale) \div 10
    ELSE IF user_profile # NoProfile
    THEN calculate_rule_based_risk_score(current_features, user_profile)
    ELSE (6 * ScoreScale) \div 10

\* ------------------------------------------------------- decision policy
\* The policy with the deny threshold exclusive ("> 0.8").
DecisionPolicyExclusive(risk) ==
    IF risk > (8 * ScoreScale) \div 10 THEN "deny_access"
    ELSE IF risk >= (5 * ScoreScale) \div 10 THEN "require_2fa"
    ELSE "allow"

\* The if / elif / else of collect_behavior on the risk score.
DecisionPolicy(risk) ==
    IF risk >= (8 * ScoreScale) \div 10 THEN "deny_access"
    ELSE IF risk >= (5 * ScoreScale) \div 10 THEN "require_2fa"
    ELSE "allow"

\* An alert_logs document (user_id, session_id and timestamp are those of the
\* session it is filed under).
AlertDoc(reason, risk, action) ==
    [reason |-> reason, risk_score |-> risk, action_taken |-> action]

\* The alert written inside the deny_access branch.
DenyAlerts(risk, action) ==
    IF risk >= (8 * ScoreScale) \div 10
    THEN << AlertDoc("High risk behavior pattern detected", risk, action) >>
    ELSE << >>

\* round(risk_score, 4) of the response: to the nearest 1/10^4, ties to even.
Round4(risk) ==
    LET lo == risk - (risk % 10)
        last == risk % 10
    IN  IF last > 5 THEN lo + 10
        ELSE IF last < 5 THEN lo
        ELSE IF (lo \div 10) % 2 = 0 THEN lo ELSE lo + 10

\* ---------------------------------------------------------- alert evaluator
\* 10 * 60 * 1000 ms.
window_ms == 10 * 60 * 1000

\* A session_logs_collection document (session_id is the index it is kept at).
SessionLog(uid, ts, risk, action) ==
    [user_id |-> uid, timestamp |-> ts, risk_score |-> risk, action_taken |-> action]

NoLog == SessionLog("", 0, 0, "")

\* count_documents({user_id, risk_score >= 0.8, timestamp >= past}).
count_documents(logs, uid, min_risk, past) ==
    Cardinality({q \in Procs :
        /\ logs[q] # NoLog
        /\ logs[q].user_id = uid
        /\ logs[q].risk_score >= min_risk
        /\ logs[q].timestamp >= past})

\* The name bound, as if the block used mongo_db_direct.
mongo_db_bound == TRUE

\* Whether the name mongo_db is bound when collect_behavior runs: the module
\* binds mongo_db_direct, mongo_client_admin and db_admin, never mongo_db.
mongo_db_defined == FALSE

\* The alerts written by the block that follows the session-log insert, with
\* the session log already in logs.  Evaluating mongo_db raises NameError when
\* the name is unbound, and "if count >= 3" raises UnboundLocalError when the
\* else branch that assigns count was not taken; both land in the except
\* clause, which writes nothing.
EvaluatorAlerts(logs, uid, ts, risk, action) ==
    LET count == count_documents(logs, uid, (8 * ScoreScale) \div 10, ts - window_ms)
    IN  IF risk >= (9 * ScoreScale) \div 10 THEN << >>
        ELSE IF ~mongo_db_defined THEN << >>
        ELSE IF count >= 3
        THEN << AlertDoc("high-risk sessions in last 10 min", risk, action) >>
        ELSE << >>

\* ------------------------------------------------------------------ state
VARIABLES
    clock,                \* time.time() in ms
    failures_left,        \* storage operations that may still fail
    pc,                   \* where each request is in collect_behavior
    user_id,              \* request locals
    session_data,         \* the request's sessionData
    current_timestamp_ms,
    processed_features,
    risk_score,
    action_taken,
    current_profile,      \* locals of update_user_profile
    update_data,
    update_successful,    \* its result
    response,             \* the JSON response of a finished request
    user_profiles,        \* user_profiles_collection, in natural order
    session_logs,         \* session_logs_collection, by session
    alert_logs,           \* alert_logs, by session
    normalize_call        \* a call of normalize_features: arguments and result

\* The state of the request handler and of the collections.
handler_vars ==
    << clock, failures_left, pc, user_id, session_data, current_timestamp_ms,
       processed_features, risk_score, action_taken, current_profile, update_data,
       update_successful, response, user_profiles, session_logs, alert_logs >>

vars == << handler_vars, normalize_call >>

locals ==
    << user_id, session_data, current_timestamp_ms, processed_features,
       normalize_call >>

updater == << current_profile, update_data, update_successful >>

\* A JSON response: status, message, and risk_score and action where the
\* response carries them (0 and "" where it does not).
Response(status, message, risk, action) ==
    [status |-> status, message |-> message, risk_score |-> risk, action |-> action]

NoResponse == Response("", "", 0, "")

\* A call of normalize_features(features, min_max_values) and, once it has
\* returned, its result.
NormalizeCall(features, table, returned, result) ==
    [features |-> features, min_max_values |-> table, returned |-> returned,
     normalized_features |-> result]

NoCall == NormalizeCall(EmptyFeatures, EmptyFeatures, FALSE, EmptyFeatures)

\* The state with no request received and empty collections.  The clock starts
\* at a positive time, as time.time() does.
InitHandler(failures) ==
    /\ clock = window_ms
    /\ failures_left = failures
    /\ pc = [p \in Procs |-> "idle"]
    /\ user_id = [p \in Procs |-> ""]
    /\ session_data = [p \in Procs |-> Undecodable]
    /\ current_timestamp_ms = [p \in Procs |-> 0]
    /\ processed_features = [p \in Procs |-> EmptyFeatures]
    /\ risk_score = [p \in Procs |-> 0]
    /\ action_taken = [p \in Procs |-> ""]
    /\ current_profile = [p \in Procs |-> NoProfile]
    /\ update_data = [p \in Procs |-> NoProfile]
    /\ update_successful = [p \in Procs |-> FALSE]
    /\ response = [p \in Procs |-> NoResponse]
    /\ user_profiles = << >>
    /\ session_logs = [p \in Procs |-> NoLog]
    /\ alert_logs = [p \in Procs |-> << >>]

\* The same with no call of the normalizer outside the handler.
InitState(failures) ==
    /\ InitHandler(failures)
    /\ normalize_call = NoCall

Init == InitState(MaxFaults)

\* A storage operation succeeds (ok) or raises, the latter while failures are
\* left.
Outcome(ok) ==
    /\ ok \/ failures_left > 0
    /\ failures_left' = IF ok THEN failures_left ELSE failures_left - 1

InFlight == {q \in Procs : pc[q] \notin {"idle", "done"}}

\* ---------------------------------------------------------------- actions
\* Time passes.  The clock is read when a request arrives and for
\* last_updated; it is advanced only while a request can still arrive.
Tick(limit) ==
    /\ clock < window_ms * (1 + limit)
    /\ \E p \in Procs : pc[p] = "idle"
    /\ Cardinality(InFlight) < MaxConcurrent
    /\ clock' = clock + window_ms
    /\ UNCHANGED << failures_left, pc, locals, risk_score, action_taken, updater,
                    response, user_profiles, session_logs, alert_logs >>

\* collect_behavior up to the feature extraction.  Without a database
\* connection the request is answered "Database connection error." before
\* anything is decoded.  Otherwise the request is stamped and its payload
\* processed: an exception of process_raw_data is caught by nothing and ends
\* the request (the framework answers 500); with no features the request is
\* answered at once with the default risk 0.5 and action allow.
Receive(p, uid, payload) ==
    /\ pc[p] = "idle"
    /\ \A q \in Procs : q < p => pc[q] # "idle"
    /\ user_id' = [user_id EXCEPT ![p] = uid]
    /\ session_data' = [session_data EXCEPT ![p] = payload]
    /\ current_timestamp_ms' = [current_timestamp_ms EXCEPT ![p] = clock]
    /\ \E raises \in BOOLEAN : LET ok == ~raises IN
        /\ Outcome(ok)
        /\ IF ~ok
           THEN /\ pc' = [pc EXCEPT ![p] = "done"]
                /\ response' = [response EXCEPT ![p] =
                       Response("error", "Database connection error.", 0, "")]
                /\ UNCHANGED processed_features
           ELSE IF ProcessRaises(payload)
           THEN /\ pc' = [pc EXCEPT ![p] = "done"]
                /\ response' = [response EXCEPT ![p] =
                       Response("exception", "Internal Server Error", 0, "")]
                /\ UNCHANGED processed_features
           ELSE IF DOMAIN process_raw_data(payload) = {}
           THEN /\ pc' = [pc EXCEPT ![p] = "done"]
                /\ response' = [response EXCEPT ![p] =
                       Response("error", "Failed to extract features.",
                                (5 * ScoreScale) \div 10, "allow")]
                /\ processed_features' = [processed_features EXCEPT ![p] =
                       process_raw_data(payload)]
           ELSE /\ pc' = [pc EXCEPT ![p] = "score"]
                /\ processed_features' = [processed_features EXCEPT ![p] =
                       process_raw_data(payload)]
                /\ UNCHANGED response
    /\ UNCHANGED << clock, risk_score, action_taken, updater,
                    user_profiles, session_logs, alert_logs, normalize_call >>

\* get_user_profile (None when the read raises) and get_risk_score.
Score(p) ==
    /\ pc[p] = "score"
    /\ \E raises \in BOOLEAN : LET ok == ~raises IN
        /\ Outcome(ok)
        /\ LET user_profile == IF ok THEN find_one(user_profiles, user_id[p])
                               ELSE NoProfile
           IN  risk_score' = [risk_score EXCEPT ![p] =
                   get_risk_score(processed_features[p], user_profile)]
    /\ pc' = [pc EXCEPT ![p] = "decide"]
    /\ UNCHANGED << clock, locals, action_taken, updater, response,
                    user_profiles, session_logs, alert_logs >>

\* The decision with the profile update skipped for a denied session.
DecideDenySkipsUpdate(p) ==
    /\ pc[p] = "decide"
    /\ action_taken' = [action_taken EXCEPT ![p] = DecisionPolicy(risk_score[p])]
    /\ \E raises \in BOOLEAN : LET ok == ~raises IN
        /\ Outcome(ok)
        /\ ~ok => DenyAlerts(risk_score[p], DecisionPolicy(risk_score[p])) # << >>
        /\ alert_logs' = [alert_logs EXCEPT ![p] =
               IF ok THEN DenyAlerts(risk_score[p], DecisionPolicy(risk_score[p]))
               ELSE << >>]
    /\ pc' = [pc EXCEPT ![p] =
           IF DecisionPolicy(risk_score[p]) = "deny_access" THEN "log" ELSE "update"]
    /\ UNCHANGED << clock, locals, risk_score, updater, response,
                    user_profiles, session_logs >>

\* The decision, and in the deny_access branch the alert insert, whose failure
\* is caught and logged.
Decide(p) ==
    /\ pc[p] = "decide"
    /\ action_taken' = [action_taken EXCEPT ![p] = DecisionPolicy(risk_score[p])]
    /\ \E raises \in BOOLEAN : LET ok == ~raises IN
        /\ Outcome(ok)
        /\ ~ok => DenyAlerts(risk_score[p], DecisionPolicy(risk_score[p])) # << >>
        /\ alert_logs' = [alert_logs EXCEPT ![p] =
               IF ok THEN DenyAlerts(risk_score[p], DecisionPolicy(risk_score[p]))
               ELSE << >>]
    /\ pc' = [pc EXCEPT ![p] = "update"]
    /\ UNCHANGED << clock, locals, risk_score, updater, response,
                    user_profiles, session_logs >>

\* update_user_profile up to the upsert: no connection returns False; else the
\* profile is read again (None when the read raises) and update_data computed.
UpdateRead(p) ==
    /\ pc[p] = "update"
    /\ \E db \in {"up", "read_raises", "down"} :
        /\ Outcome(db = "up")
        /\ LET profile == IF db = "up" THEN find_one(user_profiles, user_id[p])
                          ELSE NoProfile
           IN  IF db = "down"
               THEN /\ pc' = [pc EXCEPT ![p] = "log"]
                    /\ UNCHANGED << current_profile, update_data >>
               ELSE /\ current_profile' = [current_profile EXCEPT ![p] = profile]
                    /\ update_data' = [update_data EXCEPT ![p] =
                           UpdateData(user_id[p], clock, profile,
                                      processed_features[p])]
                    /\ pc' = [pc EXCEPT ![p] = "upsert"]
    /\ UNCHANGED << clock, locals, risk_score, action_taken, update_successful,
                    response, user_profiles, session_logs, alert_logs >>

\* update_one(..., upsert=True), query phase: a matching document is $set in
\* place, atomically; with no match the operation goes on to insert.  A raise
\* makes update_user_profile return False.
UpsertQuery(p) ==
    /\ pc[p] = "upsert"
    /\ \E raises \in BOOLEAN : LET ok == ~raises IN
        /\ Outcome(ok)
        /\ LET i == FirstMatch(user_profiles, user_id[p], 1)
           IN  IF ~ok
               THEN /\ pc' = [pc EXCEPT ![p] = "log"]
                    /\ UNCHANGED << user_profiles, update_successful >>
               ELSE IF i # 0
               THEN /\ user_profiles' = [user_profiles EXCEPT ![i] =
                           ApplySet(user_profiles[i], update_data[p])]
                    /\ update_successful' = [update_successful EXCEPT ![p] = TRUE]
                    /\ pc' = [pc EXCEPT ![p] = "log"]
               ELSE /\ pc' = [pc EXCEPT ![p] = "insert"]
                    /\ UNCHANGED << user_profiles, update_successful >>
    /\ UNCHANGED << clock, locals, risk_score, action_taken, current_profile,
                    update_data, response, session_logs, alert_logs >>

\* update_one(..., upsert=True), insert phase: the collection has no unique
\* index on user_id, so the document is inserted whatever was inserted since
\* the query phase.
UpsertInsert(p) ==
    /\ pc[p] = "insert"
    /\ user_profiles' = Append(user_profiles, update_data[p])
    /\ update_successful' = [update_successful EXCEPT ![p] = TRUE]
    /\ pc' = [pc EXCEPT ![p] = "log"]
    /\ UNCHANGED << clock, failures_left, locals, risk_score, action_taken,
                    current_profile, update_data, response, session_logs,
                    alert_logs >>

\* The same with the failure of the session-log insert reported to the caller.
LogAndAlertPropagating(p) ==
    /\ pc[p] = "log"
    /\ \E raises \in BOOLEAN : LET ok == ~raises IN
        /\ Outcome(ok)
        /\ LET log == SessionLog(user_id[p], current_timestamp_ms[p],
                                 risk_score[p], action_taken[p])
               logs == [session_logs EXCEPT ![p] = log]
           IN  IF ok
               THEN /\ session_logs' = logs
                    /\ alert_logs' = [alert_logs EXCEPT ![p] =
                           @ \o EvaluatorAlerts(logs, user_id[p],
                                    current_timestamp_ms[p], risk_score[p],
                                    action_taken[p])]
               ELSE UNCHANGED << session_logs, alert_logs >>
        /\ response' = [response EXCEPT ![p] =
               IF ok
               THEN Response("success", "Session processed.", Round4(risk_score[p]),
                             action_taken[p])
               ELSE Response("error", "Database connection error.", 0, "")]
    /\ current_profile' = [current_profile EXCEPT ![p] = NoProfile]
    /\ update_data' = [update_data EXCEPT ![p] = NoProfile]
    /\ pc' = [pc EXCEPT ![p] = "done"]
    /\ UNCHANGED << clock, locals, risk_score, action_taken, update_successful,
                    user_profiles >>

\* The session-log insert with the alert evaluation that follows it in the
\* same try block, then the success response.
LogAndAlert(p) ==
    /\ pc[p] = "log"
    /\ \E raises \in BOOLEAN : LET ok == ~raises IN
        /\ Outcome(ok)
        /\ LET log == SessionLog(user_id[p], current_timestamp_ms[p],
                                 risk_score[p], action_taken[p])
               logs == [session_logs EXCEPT ![p] = log]
           IN  IF ok
               THEN /\ session_logs' = logs
                    /\ alert_logs' = [alert_logs EXCEPT ![p] =
                           @ \o EvaluatorAlerts(logs, user_id[p],
                                    current_timestamp_ms[p], risk_score[p],
                                    action_taken[p])]
               ELSE UNCHANGED << session_logs, alert_logs >>
    /\ response' = [response EXCEPT ![p] =
           Response("success", "Session processed.", Round4(risk_score[p]),
                    action_taken[p])]
    /\ current_profile' = [current_profile EXCEPT ![p] = NoProfile]
    /\ update_data' = [update_data EXCEPT ![p] = NoProfile]
    /\ pc' = [pc EXCEPT ![p] = "done"]
    /\ UNCHANGED << clock, locals, risk_score, action_taken, update_successful,
                    user_profiles >>

\* A request arrives while a worker is free.
Arrive ==
    /\ Cardinality(InFlight) < MaxConcurrent
    /\ \E p \in 1..MaxRaceSessions, uid \in Users, payload \in Payloads :
           Receive(p, uid, payload)

\* A request arrives while no other is being processed.
ArriveAlone ==
    /\ InFlight = {}
    /\ \E p \in Procs, uid \in Users, payload \in Payloads :
           Receive(p, uid, payload)

Step ==
    \/ \E p \in Procs : Score(p)
    \/ \E p \in Procs : Decide(p)
    \/ \E p \in Procs : UpdateRead(p)
    \/ \E p \in Procs : UpsertQuery(p)
    \/ \E p \in Procs : UpsertInsert(p)
    \/ \E p \in Procs : LogAndAlert(p)

Next ==
    \/ Tick(MaxRaceTicks)
    \/ Arrive
    \/ Step
    \/ \E p \in Procs : Score(p)
    \/ \E p \in Procs : Decide(p)
    \/ \E p \in Procs : UpdateRead(p)
    \/ \E p \in Procs : UpsertQuery(p)
    \/ \E p \in Procs : UpsertInsert(p)
    \/ \E p \in Procs : LogAndAlert(p)

Spec == Init /\ [][Next]_vars

\* Requests served one at a time by a storage that never fails.
InitSeq == InitState(0)

NextSeq ==
    \/ InFlight = {} /\ Tick(MaxTicks)
    \/ ArriveAlone
    \/ Step

SpecSeq == InitSeq /\ [][NextSeq]_vars

\* The stages from decoding to the decision on enumerated payloads: a first
\* session of the user, then a session with any of the enumerated payloads,
\* served by a storage that never fails.
ArriveFirst ==
    /\ InFlight = {}
    /\ \E uid \in Users, payload \in Payloads : Receive(1, uid, payload)

ArriveBatch ==
    /\ InFlight = {}
    /\ \E uid \in Users, payload \in BatchPayloads : Receive(2, uid, payload)

NextPipeline ==
    \/ ArriveFirst
    \/ ArriveBatch
    \/ Step

SpecPipeline == InitSeq /\ [][NextPipeline]_vars

\* Two sessions of the user, one after the other, on a storage of which every
\* operation may fail.
InitFaulty == InitState(MaxSessionFaults)

ArriveSecond ==
    /\ InFlight = {}
    /\ \E uid \in Users, payload \in Payloads : Receive(2, uid, payload)

NextFaulty ==
    \/ ArriveFirst
    \/ ArriveSecond
    \/ Step

SpecFaulty == InitFaulty /\ [][NextFaulty]_vars

\* normalize_features called with an overriding calibration table: features
\* of two names, a table with an entry for both, one or none of them.
NormKeys == {"typing_speed_cps", "session_duration_ms"}

Tables ==
    UNION { [keys -> [min : 0..MaxCalibration, max : 0..MaxCalibration]] :
            keys \in SUBSET NormKeys }

InitNormalize ==
    /\ InitHandler(0)
    /\ \E features \in [NormKeys -> (-1)..(MaxCalibration + 1)], table \in Tables :
           normalize_call = NormalizeCall(features, table, FALSE, EmptyFeatures)

Normalize ==
    /\ ~normalize_call.returned
    /\ normalize_call' =
           NormalizeCall(normalize_call.features, normalize_call.min_max_values, TRUE,
               normalize_features(normalize_call.features,
                                  normalize_call.min_max_values))
    /\ UNCHANGED handler_vars

SpecNormalize == InitNormalize /\ [][Normalize]_vars

\* The decision applied to every score of [0, 1]: request 1 has been received
\* and scored, with any score.
InitScored(failures) ==
    /\ normalize_call = NoCall
    /\ clock = window_ms
    /\ failures_left = failures
    /\ pc = [p \in Procs |-> IF p = 1 THEN "decide" ELSE "idle"]
    /\ user_id = [p \in Procs |-> IF p = 1 THEN "u1" ELSE ""]
    /\ session_data = [p \in Procs |-> IF p = 1 THEN BusySession ELSE Undecodable]
    /\ current_timestamp_ms = [p \in Procs |-> IF p = 1 THEN window_ms ELSE 0]
    /\ processed_features =
           [p \in Procs |-> IF p = 1 THEN process_raw_data(BusySession) ELSE EmptyFeatures]
    /\ \E score \in 0..ScoreScale :
           risk_score = [p \in Procs |-> IF p = 1 THEN score ELSE 0]
    /\ action_taken = [p \in Procs |-> ""]
    /\ current_profile = [p \in Procs |-> NoProfile]
    /\ update_data = [p \in Procs |-> NoProfile]
    /\ update_successful = [p \in Procs |-> FALSE]
    /\ response = [p \in Procs |-> NoResponse]
    /\ user_profiles = << >>
    /\ session_logs = [p \in Procs |-> NoLog]
    /\ alert_logs = [p \in Procs |-> << >>]

InitDecide == InitScored(MaxFaults)

NextDecide == \E p \in Procs : Decide(p)

SpecDecide == InitDecide /\ [][NextDecide]_vars

\* The same request taken from its score to its response, by a storage that
\* never fails.
InitRespond == InitScored(0)

NextRespond ==
    \/ \E p \in Procs : Decide(p)
    \/ \E p \in Procs : UpdateRead(p)
    \/ \E p \in Procs : UpsertQuery(p)
    \/ \E p \in Procs : UpsertInsert(p)
    \/ \E p \in Procs : LogAndAlert(p)

SpecRespond == InitRespond /\ [][NextRespond]_vars

\* ------------------------------------------------------------------ claims
\* The request has taken its decision.
Decided(p) == action_taken[p] # ""

\* The request has run to its success response.
Answered(p) == pc[p] = "done" /\ response[p].status = "success"

\* What the history query of the alert evaluator returns for request p on the
\* session log as it stands.
HighRiskInWindow(p) ==
    count_documents(session_logs, user_id[p], 80000,
                    current_timestamp_ms[p] - window_ms)

\* No request received after p has started.
Latest(p) == \A q \in Procs : q > p => pc[q] = "idle"

\* C1: the decision is a function of the risk score alone, with the boundaries
\* in the higher-severity bucket: score >= 0.8 gives deny_access, 0.5 <= score
\* < 0.8 gives require_2fa, score < 0.5 gives allow (so 0.8 -> deny_access,
\* 0.79999 -> require_2fa, 0.5 -> require_2fa, 0.49999 -> allow).
C1_DecisionByThresholds ==
    \A p \in Procs :
        Decided(p) =>
            /\ risk_score[p] >= 80000 => action_taken[p] = "deny_access"
            /\ (risk_score[p] >= 50000 /\ risk_score[p] <= 79999)
                   => action_taken[p] = "require_2fa"
            /\ risk_score[p] <= 49999 => action_taken[p] = "allow"

\* C1 witness: a session scored exactly 0.8 has been denied.
C1_DeniedAtBoundary ==
    \E p \in Procs : risk_score[p] = 80000 /\ action_taken[p] = "deny_access"

\* C2: with storage working, whenever the user's sessions with risk_score >=
\* 0.8 in the trailing 10 minutes (the session just scored included) number 3
\* or more, an alert record exists for the session just scored, whatever its
\* own score.
C2_RepeatedRiskAlerts ==
    \A p \in Procs :
        (/\ Answered(p)
         /\ Latest(p)
         /\ session_logs[p] # NoLog
         /\ HighRiskInWindow(p) >= 3)
            => alert_logs[p] # << >>

\* C3: with storage working, a session of a user with no other session in the
\* history store has an alert record if and only if its risk_score >= 0.9
\* (none at 0.89 nor anywhere in [0.8, 0.9)).
C3_SingleSessionAlertIff ==
    \A p \in Procs :
        (/\ failures_left = MaxFaults
         /\ Answered(p)
         /\ \A q \in Procs \ {p} : session_logs[q] = NoLog)
            => (alert_logs[p] # << >> <=> risk_score[p] >= 90000)

\* C4: at most one alert record is inserted per scored session, whatever the
\* score and the history, also when both the >= 0.9 trigger and the
\* 3-in-10-minutes trigger hold.
C4_AtMostOneAlert ==
    \A p \in Procs : Len(alert_logs[p]) <= 1

\* C4 witness: a finished session for which both triggers hold has exactly one
\* alert record.
C4_BothTriggersOneAlert ==
    \E p \in Procs :
        /\ Answered(p)
        /\ Latest(p)
        /\ risk_score[p] >= 90000
        /\ HighRiskInWindow(p) >= 3
        /\ Len(alert_logs[p]) = 1

\* The stored profile of user uid (the document every read and update hits).
Stored(uid) == find_one(user_profiles, uid)

\* 0.9 * old + 0.1 * new on every metric.
Ewma(old, new) == [m \in Metrics |-> (9 * old[m] + new[m]) \div 10]

\* The request's profile write has been applied.
Wrote(p) == pc[p] \in {"log", "done"} /\ update_successful[p]

\* C5: the update is no atomic read-modify-write: the write of a request that
\* read profile P stores 0.9 * P + 0.1 * its own features whatever the store
\* holds by then, so that of two overlapping requests that read the same P the
\* one writing first loses its update.
C5_WriteIgnoresInterveningUpdate ==
    [][\A b \in Procs :
          (/\ pc[b] = "upsert"
           /\ pc'[b] = "log"
           /\ update_successful'[b]
           /\ current_profile[b] # NoProfile)
              => find_one(user_profiles', user_id[b]).vals
                     = Ewma(current_profile[b].vals, processed_features[b])]_vars

\* C5 witness: two requests read the same profile P and both wrote; the store
\* holds 0.9 * P + 0.1 * features of b alone, which is neither sequential
\* order of the two updates nor the update of a.
C5_LostUpdate ==
    \E a, b \in Procs :
        /\ a # b
        /\ user_id[a] = user_id[b]
        /\ pc[a] = "log" /\ pc[b] = "log"
        /\ update_successful[a] /\ update_successful[b]
        /\ current_profile[a] # NoProfile
        /\ current_profile[a] = current_profile[b]
        /\ LET P == current_profile[a].vals
               fa == processed_features[a]
               fb == processed_features[b]
           IN  /\ Stored(user_id[b]).vals = Ewma(P, fb)
               /\ Stored(user_id[b]).vals # Ewma(P, fa)
               /\ Stored(user_id[b]).vals # Ewma(Ewma(P, fa), fb)
               /\ Stored(user_id[b]).vals # Ewma(Ewma(P, fb), fa)

\* C6: the profile store holds at most one document per user_id, and exactly
\* one once a session of that user has completed its profile write.
C6_OneProfilePerUser ==
    \A u \in Users :
        LET docs == {i \in 1..Len(user_profiles) : user_profiles[i].user_id = u}
        IN  /\ Cardinality(docs) <= 1
            /\ (\E p \in Procs : user_id[p] = u /\ Wrote(p)) => Cardinality(docs) = 1

\* C7: sequential sessions of one user: the first stores its normalized values
\* b verbatim, and after n = 1, 2, 3 further sessions with the same
\* observation x the stored value is x + (b - x) * 0.9^n, on every metric.
C7_EwmaLaw ==
    \A k \in 1..4 :
        (/\ \A j \in 1..k : Wrote(j) /\ DOMAIN processed_features[j] # {}
         /\ \A j \in 2..k : processed_features[j] = processed_features[2]
         /\ \A q \in Procs : q > k => ~Wrote(q) /\ pc[q] # "insert")
            => LET b == processed_features[1]
                   x == processed_features[IF k >= 2 THEN 2 ELSE 1]
                   n == k - 1
               IN  \A m \in Metrics :
                       Stored(user_id[1]).vals[m] * (10 ^ n)
                           = x[m] * (10 ^ n) + (b[m] - x[m]) * (9 ^ n)

\* C7 witness: a first session followed by three sessions with one and the
\* same observation, different from the first.
C7_ThreeFurtherSessions ==
    /\ \A j \in 1..4 : Wrote(j)
    /\ processed_features[3] = processed_features[2]
    /\ processed_features[4] = processed_features[2]
    /\ processed_features[1] # processed_features[2]
    /\ \A q \in Procs : q > 4 => pc[q] = "idle"
    /\ \E m \in Metrics :
           /\ Stored(user_id[1]).vals[m] # processed_features[1][m]
           /\ Stored(user_id[1]).vals[m] # processed_features[2][m]

\* C8: the risk score of every scored session lies in [0, 1] and its action is
\* one of allow, require_2fa, deny_access; so do those of every response.
C8_ScoreAndActionRange ==
    \A p \in Procs :
        /\ risk_score[p] >= 0 /\ risk_score[p] <= 100000
        /\ Decided(p) => action_taken[p] \in {"allow", "require_2fa", "deny_access"}
        /\ response[p].message \in {"Session processed.",
                                    "Failed to extract features."} =>
               /\ response[p].risk_score >= 0 /\ response[p].risk_score <= 100000
               /\ response[p].action \in {"allow", "require_2fa", "deny_access"}

\* C8 witness: a session scored against a stored profile reached the top of the
\* range, 1.0, and was denied.
C8_TopOfRange ==
    \E p \in Procs :
        /\ Answered(p)
        /\ risk_score[p] = 100000
        /\ action_taken[p] = "deny_access"

\* C9: every metric value of every stored profile is on the normalized scale,
\* in [0, 1].
C9_ProfileOnNormalizedScale ==
    \A i \in 1..Len(user_profiles) :
        \A m \in Metrics :
            user_profiles[i].vals[m] >= 0 /\ user_profiles[i].vals[m] <= Scale

\* C9 witness: a profile created from a clamped feature (raw dwell time above
\* its calibration maximum) has been updated, to a value strictly inside (0, 1).
C9_UpdatedInsideRange ==
    \E p \in Procs :
        /\ Wrote(p)
        /\ pc[p] = "log"
        /\ current_profile[p] # NoProfile
        /\ current_profile[p].vals["avg_dwell_time_ms"] = Scale
        /\ Stored(user_id[p]).vals["avg_dwell_time_ms"] > 0
        /\ Stored(user_id[p]).vals["avg_dwell_time_ms"] < Scale

\* C10: a session scored against a stored profile whose 12 metric values are
\* all zero has a risk score >= 0.2, whatever its features.
C10_UnprofiledFloor ==
    \A p \in Procs :
        (/\ pc[p] = "decide"
         /\ Stored(user_id[p]) # NoProfile
         /\ \A m \in Metrics : Stored(user_id[p]).vals[m] = 0)
            => risk_score[p] >= 20000

\* The request was received and got past the connection check that opens
\* collect_behavior, so that its payload was processed.
Processed(p) ==
    pc[p] # "idle" /\ response[p].message # "Database connection error."

\* C11: for a payload that fails base64 or JSON decoding, the decoder returns
\* an empty event sequence, process_raw_data returns the empty feature mapping
\* and the response carries risk_score 0.5 and action allow (for every request
\* whose payload the handler got to process).
C11_DecodeFailureFallback ==
    \A p \in Procs :
        (Processed(p) /\ session_data[p].kind = "undecodable") =>
            /\ Falsy(decrypt_and_decode_data(session_data[p]))
            /\ processed_features[p] = EmptyFeatures
            /\ pc[p] = "done"
            /\ response[p].risk_score = 50000
            /\ response[p].action = "allow"

\* C11 witness: a request with an undecodable payload was answered with the
\* fallback after an earlier session of the user had been scored.
C11_FallbackAnswered ==
    \E p, q \in Procs :
        /\ q < p
        /\ Answered(q)
        /\ pc[p] = "done"
        /\ session_data[p].kind = "undecodable"
        /\ response[p] = Response("error", "Failed to extract features.", 50000, "allow")

\* C12: for a payload that decodes successfully, whatever the decoded value
\* (an object, a number, a string, events lacking type, timestamp, keyCode or
\* x/y), the stages from decoding to the decision end in a feature mapping or
\* in the documented default (empty mapping, risk 0.5, action allow), never in
\* an uncaught exception.
C12_NoUncaughtError ==
    \A p \in Procs :
        (Processed(p) /\ session_data[p].kind # "undecodable") =>
            /\ response[p].status # "exception"
            /\ \/ DOMAIN processed_features[p] = Metrics
               \/ /\ processed_features[p] = EmptyFeatures
                  /\ response[p].risk_score = 50000
                  /\ response[p].action = "allow"

\* C13: the response of a scored session carries the score (rounded) and the
\* action of the decision with status success, whether the profile update,
\* the alert insert, the history count and the session-log insert succeeded or
\* failed; and no failure changes the score or the action once decided.
C13_DecisionAuthoritative ==
    [][\A p \in Procs :
          /\ Decided(p) =>
                 /\ risk_score'[p] = risk_score[p]
                 /\ action_taken'[p] = action_taken[p]
          /\ (Decided(p) /\ pc'[p] = "done") =>
                 response'[p] = Response("success", "Session processed.",
                                         Round4(risk_score[p]),
                                         DecisionPolicy(risk_score[p]))]_vars

\* C13 witness: a denied session was answered with its decision although its
\* alert insert, its profile update and its session-log insert all failed.
C13_AnsweredDespiteFailures ==
    \E p \in Procs :
        /\ Answered(p)
        /\ risk_score[p] >= 80000
        /\ alert_logs[p] = << >>
        /\ ~update_successful[p]
        /\ session_logs[p] = NoLog
        /\ response[p].action = "deny_access"
        /\ response[p].risk_score = Round4(risk_score[p])

\* C14: a session with a non-empty feature vector whose profile is absent, or
\* whose profile read fails, is scored exactly 0.6 whatever its features
\* (neither the deviations nor the 0.2 floor are used), and goes on to the
\* decision.
C14_NoProfileScore ==
    [][\A p \in Procs :
          (/\ pc[p] = "score"
           /\ pc'[p] # "score"
           /\ \/ Stored(user_id[p]) = NoProfile
              \/ failures_left' < failures_left)
              => /\ risk_score'[p] = 60000
                 /\ pc'[p] = "decide"]_vars

\* C14 witness: a session whose profile read failed was scored 0.6 and is at
\* the decision, although a profile is stored against which its score would
\* have been another.
C14_ReadFailureScored ==
    \E p \in Procs :
        /\ pc[p] = "decide"
        /\ failures_left = 0
        /\ risk_score[p] = 60000
        /\ Stored(user_id[p]) # NoProfile
        /\ \A q \in Procs : q # p => pc[q] \in {"idle", "done"}
        /\ get_risk_score(processed_features[p], Stored(user_id[p])) # 60000

\* The closed metric set of the feature vector: the 12 keystroke, pointer and
\* session metrics and the 8 touch and motion metrics.
ClosedMetricSet ==
    Metrics \cup {"avg_swipe_speed", "max_swipe_speed", "gyroX_stddev",
                  "gyroY_stddev", "gyroZ_stddev", "accelX_mean", "accelY_mean",
                  "accelZ_mean"}

\* The request's payload decoded to a non-empty event sequence of which the
\* extractor made a feature vector.
Extracted(p) ==
    /\ Processed(p)
    /\ session_data[p].kind = "events"
    /\ ~Falsy(decrypt_and_decode_data(session_data[p]))
    /\ ~ProcessRaises(session_data[p])

\* C15: for every non-empty event sequence the extractor's feature vector (and
\* so the normalized one) has every one of the 20 names of the closed metric
\* set.
C15_ClosedKeySet ==
    \A p \in Procs :
        Extracted(p) =>
            \A name \in ClosedMetricSet :
                /\ name \in DOMAIN ExtractedFeatures(session_data[p])
                /\ name \in DOMAIN processed_features[p]

\* clamp(n / d, 0, 1) for d # 0, on the scale of the normalized values.
ClampedRatio(n, d) ==
    LET nn == IF d < 0 THEN -n ELSE n
        dd == Abs(d)
    IN  IF nn <= 0 THEN 0
        ELSE IF nn >= dd THEN Scale
        ELSE (nn * Scale) \div dd

\* C16 as claimed: a feature of the calibration table with max # min is
\* normalized to clamp((value - min) / (max - min), 0, 1), one with max = min
\* to 0.5, a feature absent from the table passes through unchanged, and every
\* normalized value of a calibrated feature lies in [0, 1].
C16_NormalizerFormula ==
    normalize_call.returned =>
        \A key \in DOMAIN normalize_call.features :
            LET value == normalize_call.features[key]
                table == normalize_call.min_max_values
                out == normalize_call.normalized_features[key]
            IN  IF key \in DOMAIN table
                THEN /\ table[key].max # table[key].min =>
                            out = ClampedRatio(value - table[key].min,
                                               table[key].max - table[key].min)
                     /\ table[key].max = table[key].min => out = Scale \div 2
                     /\ out >= 0 /\ out <= Scale
                ELSE out = value * Scale

\* C16 as amended: the formula holds for max > min (value = min gives 0.0 and
\* value = max gives 1.0); for max <= min the output is 0.5.
C16_NormalizerOnProperRange ==
    normalize_call.returned =>
        \A key \in DOMAIN normalize_call.features :
            LET value == normalize_call.features[key]
                table == normalize_call.min_max_values
                out == normalize_call.normalized_features[key]
            IN  IF key \in DOMAIN table
                THEN /\ table[key].max > table[key].min =>
                            /\ out = ClampedRatio(value - table[key].min,
                                                  table[key].max - table[key].min)
                            /\ value = table[key].min => out = 0
                            /\ value = table[key].max => out = Scale
                     /\ table[key].max <= table[key].min => out = Scale \div 2
                     /\ out >= 0 /\ out <= Scale
                ELSE out = value * Scale

\* C16 witness: a call with an overriding table that scales one feature to a
\* value strictly inside (0, 1) and has no entry for the other, which passes
\* through with a value outside [0, 1].
C16_ScaledAndPassedThrough ==
    /\ normalize_call.returned
    /\ DOMAIN normalize_call.min_max_values = {"typing_speed_cps"}
    /\ normalize_call.min_max_values["typing_speed_cps"].max
           > normalize_call.min_max_values["typing_speed_cps"].min
    /\ normalize_call.normalized_features["typing_speed_cps"] > 0
    /\ normalize_call.normalized_features["typing_speed_cps"] < Scale
    /\ normalize_call.features["session_duration_ms"] < 0
    /\ normalize_call.normalized_features["session_duration_ms"]
           = normalize_call.features["session_duration_ms"] * Scale

\* C17: the score of a session with features against an existing profile is
\* the sum over the 12 core metrics of w_m * min(1, d_m), divided by the sum of
\* the weights w_m of those same 12 metrics (every weight the numerator uses,
\* the 0.1 of mouse_std_angle_change_rad included).
C17_ScoreFormula ==
    \A p \in Procs :
        (pc[p] = "decide" /\ Stored(user_id[p]) # NoProfile) =>
            LET weight == [i \in 1..Len(FEATURE_ORDER) |->
                              Get(sensitivity, FEATURE_ORDER[i], 10)]
                weighted == [i \in 1..Len(FEATURE_ORDER) |->
                                weight[i]
                                * CappedDeviation(
                                      processed_features[p][FEATURE_ORDER[i]],
                                      Stored(user_id[p]).vals[FEATURE_ORDER[i]])]
            IN  risk_score[p] = SumOver(weighted, 1) \div SumOver(weight, 1)

\* The batches with the events of batch b in another order of arrival.
Reorderings(b) ==
    { [i \in 1..Len(b) |-> b[f[i]]] :
          f \in { g \in [1..Len(b) -> 1..Len(b)] :
                      \A i, j \in 1..Len(b) : i # j => g[i] # g[j] } }

\* Every key_up of the batch has a later timestamp than the key_down events of
\* its key.
KeyUpsAfterKeyDowns(b) ==
    \A i, j \in 1..Len(b) :
        (b[i].type = "keydown" /\ b[j].type = "keyup" /\ b[i].keyCode = b[j].keyCode)
            => b[i].timestamp < b[j].timestamp

\* C18: for a batch of events with distinct timestamps the extractor's feature
\* vector is the same for every order of arrival of the events, and no dwell
\* or flight time is negative when each key_up is later than its key_down.
C18_OrderIndependent ==
    \A p \in Procs :
        Extracted(p) =>
            LET b == session_data[p].events
            IN  /\ \A c \in Reorderings(b) :
                       extract_web_features(c) = extract_web_features(b)
                /\ KeyUpsAfterKeyDowns(b) =>
                       /\ \A i \in 1..Len(dwell_times(b)) : dwell_times(b)[i] >= 0
                       /\ \A i \in 1..Len(flight_times(b)) : flight_times(b)[i] >= 0

\* The batch without its i-th event.
Without(b, i) ==
    [k \in 1..(Len(b) - 1) |-> IF k < i THEN b[k] ELSE b[k + 1]]

\* The i-th event of the batch is a key_down whose key has no key_up anywhere
\* in the batch.
UnmatchedKeyDown(b, i) ==
    /\ b[i].type = "keydown"
    /\ \A j \in 1..Len(b) : ~(b[j].type = "keyup" /\ b[j].keyCode = b[i].keyCode)

\* C19: an unmatched key_down is dropped: the batch with it has the same
\* dwell-time list and the same flight-time list (and so the same averages
\* and deviations of both) as the batch without it.
C19_UnmatchedKeyDownDropped ==
    \A p \in Procs :
        Extracted(p) =>
            LET b == session_data[p].events
            IN  \A i \in 1..Len(b) :
                    UnmatchedKeyDown(b, i) =>
                        /\ dwell_times(b) = dwell_times(Without(b, i))
                        /\ flight_times(b) = flight_times(Without(b, i))

\* C20: the profile is written only by a session that has been scored and
\* decided, and the write changes neither its score nor its action; after the
\* decision the session goes on to the profile update whatever the action, so
\* that with storage working every answered session has written the profile.
C20_ScoreBeforeUpdate ==
    [][\A p \in Procs :
          /\ (user_profiles' # user_profiles /\ pc'[p] # pc[p]) =>
                 /\ pc[p] \in {"upsert", "insert"}
                 /\ Decided(p)
                 /\ risk_score'[p] = risk_score[p]
                 /\ action_taken'[p] = action_taken[p]
          /\ (pc[p] = "score" /\ pc'[p] # "score") => ~update_successful[p]
          /\ (pc[p] = "decide" /\ pc'[p] # "decide") => pc'[p] = "update"
          /\ (pc[p] = "log" /\ pc'[p] = "done" /\ failures_left' = MaxFaults) =>
                 update_successful'[p]]_vars

\* C20 witness: a denied session has written the profile after its decision,
\* and the score it was given is not the one its features get against the
\* profile it has written.
C20_DeniedThenUpdated ==
    \E p \in Procs :
        /\ Answered(p)
        /\ action_taken[p] = "deny_access"
        /\ Wrote(p)
        /\ \A q \in Procs : q # p => pc[q] \in {"idle", "done"}
        /\ risk_score[p] # get_risk_score(processed_features[p], Stored(user_id[p]))

\* C21: in every success response the action is the one the decision
\* thresholds (>= 0.8 deny_access, >= 0.5 require_2fa, else allow) assign to
\* the risk_score of the same response, the score rounded to 4 decimals.
C21_ResponseConsistent ==
    \A p \in Procs :
        Answered(p) =>
            /\ response[p].risk_score = Round4(risk_score[p])
            /\ response[p].action = DecisionPolicy(response[p].risk_score)

\* C22: whenever a profile of the user is in the store at the moment
\* update_user_profile writes, the written metric values are
\* 0.9 * stored + 0.1 * new (never the new observation verbatim), also when
\* the profile read inside the update fails and when another session creates
\* the profile between this session's read and its write.
C22_BaselineNeverReset ==
    [][\A p \in Procs :
          (/\ pc[p] \in {"upsert", "insert"}
           /\ ~update_successful[p]
           /\ update_successful'[p]
           /\ Stored(user_id[p]) # NoProfile)
              => update_data[p].vals
                     = Ewma(Stored(user_id[p]).vals, processed_features[p])]_vars

====
